---- MODULE Spec2Model ----
(***************************************************************************)
(* Streaming chat client of Locali (frontend): the transport reader and    *)
(* frame decoder of ApiClient.streamRequest, the send-message mutation     *)
(* useSendMessage with the query client's retry policy, the valtio chat    *)
(* store, the ChatInput submit handler and the ChatPage effects.           *)
(*                                                                         *)
(* Text is modelled at two levels.  Bytes on the wire and decoded          *)
(* characters are one-element strings kept in sequences, so that split,    *)
(* startsWith, slice and trim are computed as the code computes them.      *)
(* Tokens, message contents and error messages are TLA+ strings obtained   *)
(* from character sequences with Str.                                      *)
(***************************************************************************)
EXTENDS Integers, Sequences, FiniteSets, TLC

VARIABLES
    chatStore,          \* valtio chatStore: messages, isStreaming, currentResponse, error, inputValue
    appStore,           \* valtio appStore: currentConversationId
    sessions,           \* one record per accepted send (one useSendMessage mutation)
    nSessions,          \* number of sends accepted so far
    nextId,             \* source of fresh message ids (crypto.randomUUID)
    urlConversationId,  \* the :conversationId route parameter read by ChatPage
    conversation,       \* data of useConversation(urlConversationId) as seen by ChatPage
    serverMsgs,         \* messages the backend returns for each conversation
    toasts,             \* number of toast.error calls made by handleSubmit
    invalidated,        \* conversations whose query useSendMessage has invalidated
    lastSubmit,         \* how the latest call of handleSubmit went: none, returned, sent
    limiter             \* a RateLimiter with the clock Date.now() reads

vars == <<chatStore, appStore, sessions, nSessions, nextId, urlConversationId,
          conversation, serverMsgs, toasts, invalidated, lastSubmit, limiter>>

-----------------------------------------------------------------------------
(* Bounds of the model *)

\* number of sends (mutations) the user may get accepted in one behaviour
MaxSends == 2

\* number of times mutationFn may run in one behaviour, retries included
MaxRuns == 3

(* Program constants *)

\* mutations.retry: failureCount < 2
MaxFailureCount == 2

\* line.slice(6): length of the "data: " prefix
PrefixLen == 6

-----------------------------------------------------------------------------
(* Text *)

None == "undefined"

\* the two bytes of U+00E9 in UTF-8, the character itself and U+FFFD
LeadByte == "C3"
ContByte == "A9"
CharE9 == "U+00E9"
CharFFFD == "U+FFFD"

DataPrefix == <<"d", "a", "t", "a", ":", " ">>
SentinelChars == <<"[", "D", "O", "N", "E", "]">>
Sentinel == "[DONE]"
NL == "\n"

\* String.prototype.trim strips these
Whitespace == {" ", "\r", "\t", "\n"}

RECURSIVE Str(_)
\* the string spelled by a sequence of characters
Str(cs) == IF cs = <<>> THEN "" ELSE cs[1] \o Str(Tail(cs))

RECURSIVE Concat(_)
\* concatenation of a sequence of strings
Concat(ts) == IF ts = <<>> THEN "" ELSE ts[1] \o Concat(Tail(ts))

RECURSIVE Flatten(_)
\* concatenation of a sequence of sequences
Flatten(ss) == IF ss = <<>> THEN <<>> ELSE ss[1] \o Flatten(Tail(ss))

RECURSIVE TrimLeft(_)
TrimLeft(cs) ==
    IF cs # <<>> /\ cs[1] \in Whitespace THEN TrimLeft(Tail(cs)) ELSE cs

RECURSIVE TrimRight(_)
TrimRight(cs) ==
    IF cs # <<>> /\ cs[Len(cs)] \in Whitespace
    THEN TrimRight(SubSeq(cs, 1, Len(cs) - 1))
    ELSE cs

\* String.prototype.trim
Trim(cs) == TrimRight(TrimLeft(cs))

\* String.prototype.startsWith
StartsWith(cs, prefix) ==
    /\ Len(cs) >= Len(prefix)
    /\ SubSeq(cs, 1, Len(prefix)) = prefix

\* String.prototype.slice(n)
Slice(cs, n) == SubSeq(cs, n + 1, Len(cs))

RECURSIVE SplitFrom(_, _)
\* split with the line under construction carried in cur
SplitFrom(cs, cur) ==
    IF cs = <<>> THEN <<cur>>
    ELSE IF cs[1] = NL THEN <<cur>> \o SplitFrom(Tail(cs), <<>>)
    ELSE SplitFrom(Tail(cs), Append(cur, cs[1]))

\* chunk.split('\n'): the pieces between line feeds, the last one included
SplitLines(cs) == SplitFrom(cs, <<>>)

RECURSIVE Decode(_)
\* new TextDecoder().decode(value): each call decodes its bytes on their own
\* (no stream option), an incomplete or stray byte becomes U+FFFD
Decode(bytes) ==
    IF bytes = <<>> THEN <<>>
    ELSE IF bytes[1] = LeadByte
         THEN IF Len(bytes) >= 2 /\ bytes[2] = ContByte
              THEN <<CharE9>> \o Decode(SubSeq(bytes, 3, Len(bytes)))
              ELSE <<CharFFFD>> \o Decode(Tail(bytes))
    ELSE IF bytes[1] = ContByte THEN <<CharFFFD>> \o Decode(Tail(bytes))
    ELSE <<bytes[1]>> \o Decode(Tail(bytes))

-----------------------------------------------------------------------------
(* Frame decoder: the body of pump() for one chunk *)

RECURSIVE ProcessLinesRawSentinel(_, _)
\* ProcessLines comparing the payload with the sentinel before trimming it
ProcessLinesRawSentinel(lines, tokens) ==
    IF lines = <<>> THEN [tokens |-> tokens, closed |-> FALSE]
    ELSE IF StartsWith(lines[1], DataPrefix)
         THEN LET data == Str(Trim(Slice(lines[1], PrefixLen)))
              IN  IF Str(Slice(lines[1], PrefixLen)) = Sentinel
                  THEN [tokens |-> tokens, closed |-> TRUE]
                  ELSE IF data # ""
                       THEN ProcessLinesRawSentinel(Tail(lines), Append(tokens, data))
                       ELSE ProcessLinesRawSentinel(Tail(lines), tokens)
    ELSE ProcessLinesRawSentinel(Tail(lines), tokens)

RECURSIVE ProcessLinesPastSentinel(_, _)
\* ProcessLines going on with the lines after the sentinel
ProcessLinesPastSentinel(lines, tokens) ==
    IF lines = <<>> THEN [tokens |-> tokens, closed |-> FALSE]
    ELSE IF StartsWith(lines[1], DataPrefix)
         THEN LET data == Str(Trim(Slice(lines[1], PrefixLen)))
                  rest == ProcessLinesPastSentinel(Tail(lines), tokens)
              IN  IF data = Sentinel
                  THEN [tokens |-> rest.tokens, closed |-> TRUE]
                  ELSE IF data # ""
                       THEN ProcessLinesPastSentinel(Tail(lines), Append(tokens, data))
                       ELSE ProcessLinesPastSentinel(Tail(lines), tokens)
    ELSE ProcessLinesPastSentinel(Tail(lines), tokens)

RECURSIVE ProcessLines(_, _)
\* the for loop over the lines of one chunk; tokens are the values enqueued
\* so far.  Result: the tokens enqueued and whether controller.close() ran.
ProcessLines(lines, tokens) ==
    IF lines = <<>> THEN [tokens |-> tokens, closed |-> FALSE]
    ELSE IF StartsWith(lines[1], DataPrefix)
         THEN LET data == Str(Trim(Slice(lines[1], PrefixLen)))
              IN  IF data = Sentinel
                  THEN [tokens |-> tokens, closed |-> TRUE]
                  ELSE IF data # ""
                       THEN ProcessLines(Tail(lines), Append(tokens, data))
                       ELSE ProcessLines(Tail(lines), tokens)
    ELSE ProcessLines(Tail(lines), tokens)

\* what pump() does with one value read from the body
PumpChunk(value) == ProcessLines(SplitLines(Decode(value)), <<>>)

-----------------------------------------------------------------------------
(* chatStore and appStore with their actions (store/index.ts) *)

Conversations == {"c1", "c2"}

Message(id, role, content) == [id |-> id, role |-> role, content |-> content]

chatStoreInit ==
    [messages |-> <<>>, isStreaming |-> FALSE, currentResponse |-> "",
     error |-> None, inputValue |-> <<>>]

appStoreInit == [currentConversationId |-> None]

addMessage(st, message) == [st EXCEPT !.messages = Append(@, message)]

appendToResponse(st, token) ==
    LET response == st.currentResponse \o token
        n == Len(st.messages)
    IN  [st EXCEPT !.currentResponse = response,
                   !.messages = IF n > 0 /\ @[n].role = "assistant"
                                THEN [@ EXCEPT ![n].content = response]
                                ELSE @]

setStreaming(st, isStreaming) ==
    [st EXCEPT !.isStreaming = isStreaming,
               !.currentResponse = IF isStreaming THEN @ ELSE ""]

setError(st, error) == [st EXCEPT !.error = error]

setInputValue(st, value) == [st EXCEPT !.inputValue = value]

clearMessages(st) ==
    [st EXCEPT !.messages = <<>>, !.currentResponse = "",
               !.isStreaming = FALSE, !.error = None]

setMessages(st, messages) == [st EXCEPT !.messages = messages]

\* appActions.setCurrentConversation: the id is assigned before it is compared
setCurrentConversation(app, chat, conversationId) ==
    LET assigned == [app EXCEPT !.currentConversationId = conversationId]
    IN  [app  |-> assigned,
         chat |-> IF conversationId # assigned.currentConversationId
                  THEN clearMessages(chat)
                  ELSE chat]

-----------------------------------------------------------------------------
(* Transport reader: ApiClient.streamRequest up to the returned stream *)

\* an error without a status field
NoStatus == "none"

ApiError(message, status) ==
    [name |-> "ApiError", message |-> message, status |-> status]

NetworkError(message) ==
    [name |-> "NetworkError", message |-> message, status |-> NoStatus]

NoError == [name |-> None, message |-> None, status |-> NoStatus]

\* a value is truthy for || unless it is undefined or the empty string
Truthy(x) == x \notin {None, ""}

\* response.json().catch(() => ({}))
ErrorData(response) ==
    IF response.parses THEN response.json ELSE [detail |-> None]

StatusText(response) ==
    "HTTP " \o response.status \o ": " \o response.statusText

\* StreamRequest without the .catch on response.json(): a body that does not
\* parse rejects, and the outer catch turns that into a NetworkError
StreamRequestNoJsonCatch(response) ==
    IF response.kind = "rejects"
    THEN [threw |-> TRUE,
          error |-> NetworkError("Failed to establish streaming connection")]
    ELSE IF ~response.ok /\ ~response.parses
    THEN [threw |-> TRUE,
          error |-> NetworkError("Failed to establish streaming connection")]
    ELSE IF ~response.ok
    THEN [threw |-> TRUE,
          error |-> ApiError(IF Truthy(response.json.detail)
                             THEN response.json.detail
                             ELSE StatusText(response),
                             response.status)]
    ELSE IF ~response.hasBody
    THEN [threw |-> TRUE,
          error |-> ApiError("No response body for streaming request", NoStatus)]
    ELSE [threw |-> FALSE, error |-> NoError]

\* the outcome of streamRequest for one outcome of fetch: either it throws
\* error, or it returns a stream over the body (the chunks the body will
\* deliver and how the body ends)
StreamRequest(response) ==
    IF response.kind = "rejects"
    THEN [threw |-> TRUE,
          error |-> NetworkError("Failed to establish streaming connection")]
    ELSE IF ~response.ok
    THEN [threw |-> TRUE,
          error |-> ApiError(IF Truthy(ErrorData(response).detail)
                             THEN ErrorData(response).detail
                             ELSE StatusText(response),
                             response.status)]
    ELSE IF ~response.hasBody
    THEN [threw |-> TRUE,
          error |-> ApiError("No response body for streaming request", NoStatus)]
    ELSE [threw |-> FALSE, error |-> NoError]

\* mutations.retry of the query client
Retry(failureCount, error) ==
    IF error.status \in {"404", "401"} THEN FALSE ELSE failureCount < MaxFailureCount

-----------------------------------------------------------------------------
(* What the network may answer *)

Line(payload) == DataPrefix \o payload \o <<NL>>

Response(kind, ok, status, statusText, parses, detail, hasBody, chunks, fin) ==
    [kind |-> kind, ok |-> ok, status |-> status, statusText |-> statusText,
     parses |-> parses, json |-> [detail |-> detail], hasBody |-> hasBody,
     chunks |-> chunks, fin |-> fin]

NoResponse == Response("none", FALSE, NoStatus, "", FALSE, None, FALSE, <<>>, "end")

\* fetch itself rejects (connection refused, offline)
FetchRejects == Response("rejects", FALSE, NoStatus, "", FALSE, None, FALSE, <<>>, "end")

FailureResponse(status, statusText, parses, detail) ==
    Response("response", FALSE, status, statusText, parses, detail, FALSE, <<>>, "end")

OkNoBody == Response("response", TRUE, "200", "OK", FALSE, None, FALSE, <<>>, "end")

\* a 200 response whose body delivers chunks and then ends ("end"), fails
\* ("fail") or stays open without further data ("open")
OkBody(chunks, fin) ==
    Response("response", TRUE, "200", "OK", FALSE, None, TRUE, chunks, fin)

\* Example B of the specification, and a 404 whose body is not JSON
ModelNotLoaded ==
    FailureResponse("500", "Internal Server Error", TRUE, "model not loaded")

NotFound == FailureResponse("404", "Not Found", FALSE, None)

FailureResponses ==
    { ModelNotLoaded, NotFound,
      FailureResponse("503", "Service Unavailable", TRUE, ""),
      FailureResponse("502", "Bad Gateway", TRUE, None),
      FailureResponse("401", "Unauthorized", TRUE, "not authenticated") }

\* Example D of the specification: one token, then the connection closes
FooThenClose == OkBody(<< Line(<<"f", "o", "o">>) >>, "end")

\* two tokens and the sentinel in one chunk, the connection stays open
DoneStaysOpen ==
    OkBody(<< Line(<<"a">>) \o Line(<<"b">>) \o Line(SentinelChars) >>, "open")

\* one token, then reading the body fails
FailsAfterToken == OkBody(<< Line(<<"c">>) >>, "fail")

Bodies == { FooThenClose, DoneStaysOpen, FailsAfterToken }

\* one token, then the server sends nothing more and keeps the connection open
StallsAfterToken == OkBody(<< Line(<<"c">>) >>, "open")

\* the answers a send may get
Responses == { ModelNotLoaded, NotFound } \cup Bodies

\* every kind of answer, for the transport reader on its own
AllResponses == {FetchRejects, OkNoBody} \cup FailureResponses \cup Bodies

\* the error a failed read of the body rejects with
ReadError == [name |-> "TypeError", message |-> "network error", status |-> NoStatus]

\* what the user may type into the textarea
Inputs == { <<" ">>, <<"h", "i", " ">> }

\* number of runs of mutationFn so far: each takes two message ids
Runs == (nextId - 1) \div 2

-----------------------------------------------------------------------------
(* Sessions: one per mutateAsync call of useSendMessage *)

Sends == 1 .. MaxSends

NoSession ==
    [pc |-> "none",             \* none, fetching, reading, retryWait, resolved, rejected
     conversationId |-> None,   \* conversationId passed to the mutation
     message |-> <<>>,          \* data.message
     failureCount |-> 0,        \* the retryer's failureCount
     src |-> <<>>,              \* chunks the body has yet to deliver
     fin |-> "end",             \* how the body ends after them
     pumping |-> FALSE,         \* pump() is awaiting reader.read() on the body
     held |-> FALSE,            \* the body's reader is locked on a body that is still open
     queue |-> <<>>,            \* tokens enqueued and not yet read by the mutation
     closeRequested |-> FALSE,  \* controller.close() was called
     errored |-> FALSE,         \* the returned stream is errored
     error |-> NoError,         \* the error the last attempt threw
     attempts |-> 0,            \* how many times mutationFn ran
     response |-> NoResponse,   \* what fetch answered in this attempt
     userId |-> 0,              \* id of the user message of this attempt
     phId |-> 0,                \* id of the assistant placeholder of this attempt
     fed |-> <<>>,              \* chunks pump() has read in this attempt
     emitted |-> <<>>,          \* tokens pump() has enqueued in this attempt
     observed |-> <<>>]         \* tokens the mutation has read in this attempt

NoConversation == [id |-> None, messages |-> <<>>]

\* MutationFnStart appending the placeholder before the user message
MutationFnStartPlaceholderFirst(st, message, id) ==
    addMessage(
        addMessage(setError(setStreaming(st, TRUE), None),
                   Message(id + 1, "assistant", "")),
        Message(id, "user", Str(message)))

\* MutationFnStart without setStreaming(true)
MutationFnStartNoIndicator(st, message, id) ==
    addMessage(
        addMessage(setError(st, None),
                   Message(id, "user", Str(message))),
        Message(id + 1, "assistant", ""))

\* useSendMessage, mutationFn up to the call of fetch: queries.ts 152-174
MutationFnStart(st, message, id) ==
    addMessage(
        addMessage(setError(setStreaming(st, TRUE), None),
                   Message(id, "user", Str(message))),
        Message(id + 1, "assistant", ""))

\* the session record when mutationFn starts an attempt
Started(sess, conversationId, message, id) ==
    [sess EXCEPT !.pc = "fetching", !.conversationId = conversationId,
                 !.message = message, !.src = <<>>, !.fin = "end",
                 !.pumping = FALSE, !.held = FALSE, !.queue = <<>>,
                 !.closeRequested = FALSE, !.errored = FALSE,
                 !.attempts = @ + 1, !.response = NoResponse,
                 !.userId = id, !.phId = id + 1,
                 !.fed = <<>>, !.emitted = <<>>, !.observed = <<>>]

\* the session record after mutationFn threw error: the retryer either
\* schedules another run or rejects the mutation
Failed(sess, error) ==
    [sess EXCEPT !.pc = IF Retry(sess.failureCount, error)
                        THEN "retryWait" ELSE "rejected",
                 !.failureCount = IF Retry(sess.failureCount, error)
                                  THEN @ + 1 ELSE @,
                 !.error = error, !.pumping = FALSE]

\* the store after mutationFn threw error: the catch block of mutationFn and,
\* when the mutation rejects, the catch block of handleSubmit
Caught(st, sess, error) ==
    LET caught == setError(setStreaming(st, FALSE), error.message)
    IN  IF Retry(sess.failureCount, error)
        THEN caught
        ELSE setInputValue(caught, sess.message)

-----------------------------------------------------------------------------
(* RateLimiter (lib/api.ts) *)

\* latest time of the clock
MaxTime == 4

\* largest maxRequests and largest windowMs a limiter is constructed with
MaxQuota == 2
MaxWindow == 3

\* most calls of canMakeRequest that return true in one behaviour
MaxGranted == 4

\* the number Infinity: larger than every time and every window
Infinity == MaxTime + MaxWindow + 1

\* new RateLimiter(maxRequests, windowMs), with the clock at 0; granted and
\* result record the calls of canMakeRequest: the times of those that
\* returned true, and what the latest call returned
RateLimiter(maxRequests, windowMs) ==
    [maxRequests |-> maxRequests, windowMs |-> windowMs, requests |-> <<>>,
     now |-> 0, granted |-> <<>>, result |-> "none"]

apiRateLimiter == RateLimiter(100, 60 * 1000)

\* this.requests.filter(time => now - time < this.windowMs)
Recent(l) ==
    LET InWindow(time) == l.now - time < l.windowMs
    IN  SelectSeq(l.requests, InWindow)

\* canMakeRequest refusing only above maxRequests
CanMakeRequestOffByOne(l) ==
    IF Len(Recent(l)) > l.maxRequests
    THEN [requests |-> Recent(l), result |-> FALSE]
    ELSE [requests |-> Append(Recent(l), l.now), result |-> TRUE]

\* canMakeRequest(): the timestamps it leaves and the value it returns
CanMakeRequest(l) ==
    IF Len(Recent(l)) >= l.maxRequests
    THEN [requests |-> Recent(l), result |-> FALSE]
    ELSE [requests |-> Append(Recent(l), l.now), result |-> TRUE]

\* Math.min(...this.requests)
MathMin(requests) ==
    IF requests = <<>> THEN Infinity
    ELSE CHOOSE x \in {requests[i] : i \in DOMAIN requests} :
             \A i \in DOMAIN requests : x <= requests[i]

\* getTimeUntilNextRequest without Math.max(0, ...)
GetTimeUntilNextRequestUnclamped(l) ==
    IF Len(l.requests) < l.maxRequests THEN 0
    ELSE IF MathMin(l.requests) = Infinity THEN Infinity
    ELSE l.windowMs - (l.now - MathMin(l.requests))

\* getTimeUntilNextRequest()
GetTimeUntilNextRequest(l) ==
    IF Len(l.requests) < l.maxRequests THEN 0
    ELSE IF MathMin(l.requests) = Infinity THEN Infinity
    ELSE IF l.windowMs - (l.now - MathMin(l.requests)) > 0
         THEN l.windowMs - (l.now - MathMin(l.requests))
         ELSE 0

-----------------------------------------------------------------------------
(* Initial state: the stores as constructed, no route parameter *)

ServerInit ==
    [c \in Conversations |->
        IF c = "c1"
        THEN << Message(101, "user", "q"), Message(102, "assistant", "a") >>
        ELSE << >>]

Init ==
    /\ chatStore = chatStoreInit
    /\ appStore = appStoreInit
    /\ sessions = [s \in Sends |-> NoSession]
    /\ nSessions = 0
    /\ nextId = 1
    /\ urlConversationId = None
    /\ conversation = NoConversation
    /\ serverMsgs = ServerInit
    /\ toasts = 0
    /\ invalidated = {}
    /\ lastSubmit = "none"
    /\ limiter = apiRateLimiter

-----------------------------------------------------------------------------
(* The user and the page *)

\* ChatInput.handleInputChange
TypeInput(value) ==
    /\ value # chatStore.inputValue
    /\ chatStore' = setInputValue(chatStore, value)
    /\ UNCHANGED <<limiter, lastSubmit, appStore, sessions, nSessions, nextId, urlConversationId,
                   conversation, serverMsgs, toasts, invalidated>>

\* the guard of ChatInput.handleSubmit
SubmitRejected ==
    \/ Trim(chatStore.inputValue) = <<>>
    \/ chatStore.isStreaming
    \/ appStore.currentConversationId = None

\* ChatInput.handleSubmit up to the await of mutateAsync, which runs
\* mutationFn up to its call of fetch; a call the guard returns on changes
\* nothing but the record that it was made
HandleSubmit ==
    IF SubmitRejected
    THEN /\ lastSubmit' = "returned"
         /\ UNCHANGED <<limiter, chatStore, appStore, sessions, nSessions, nextId,
                        urlConversationId, conversation, serverMsgs, toasts,
                        invalidated>>
    ELSE /\ nSessions < MaxSends
         /\ Runs < MaxRuns
         /\ LET s == nSessions + 1
                message == Trim(chatStore.inputValue)
            IN  /\ chatStore' = MutationFnStart(setInputValue(chatStore, <<>>),
                                                message, nextId)
                /\ sessions' = [sessions EXCEPT ![s] =
                       Started(@, appStore.currentConversationId, message, nextId)]
                /\ nSessions' = s
         /\ nextId' = nextId + 2
         /\ lastSubmit' = "sent"
         /\ UNCHANGED <<limiter, appStore, urlConversationId, conversation, serverMsgs,
                        toasts, invalidated>>

\* the first effect of ChatPage, run after the route parameter or the
\* current conversation changed
RouteEffect(app, chat, url) ==
    IF url # None /\ url # app.currentConversationId
    THEN setCurrentConversation(app, chat, url)
    ELSE [app |-> app, chat |-> chat]

\* ConversationList onClick (or the onSuccess of create and delete, with
\* undefined after a delete), followed by the first effect of ChatPage
SelectConversation(conversationId) ==
    /\ conversationId # appStore.currentConversationId
    /\ LET set == setCurrentConversation(appStore, chatStore, conversationId)
           eff == RouteEffect(set.app, set.chat, urlConversationId)
       IN  /\ appStore' = eff.app
           /\ chatStore' = eff.chat
    /\ UNCHANGED <<limiter, lastSubmit, sessions, nSessions, nextId, urlConversationId,
                   conversation, serverMsgs, toasts, invalidated>>

\* the route changes to /chat/:conversationId (or to /chat, with undefined):
\* useConversation starts over for the new key and the first effect runs
Navigate(conversationId) ==
    /\ conversationId # urlConversationId
    /\ urlConversationId' = conversationId
    /\ conversation' = NoConversation
    /\ LET eff == RouteEffect(appStore, chatStore, conversationId)
       IN  /\ appStore' = eff.app
           /\ chatStore' = eff.chat
    /\ UNCHANGED <<limiter, lastSubmit, sessions, nSessions, nextId, serverMsgs, toasts, invalidated>>

\* useConversation delivers (new) data for the route's conversation and
\* the second effect of ChatPage runs
QueryUpdate ==
    /\ urlConversationId # None
    /\ LET data == [id |-> urlConversationId,
                    messages |-> serverMsgs[urlConversationId]]
       IN  /\ data # conversation
           /\ conversation' = data
           /\ chatStore' = setMessages(chatStore, data.messages)
    /\ UNCHANGED <<limiter, lastSubmit, appStore, sessions, nSessions, nextId, urlConversationId,
                   serverMsgs, toasts, invalidated>>

-----------------------------------------------------------------------------
(* One attempt of a send *)

\* await api.sendMessage(...) settles: streamRequest throws, or returns the
\* stream and start() calls pump(); the mutation then awaits reader.read()
FetchSettles(s, response) ==
    /\ sessions[s].pc = "fetching"
    /\ LET r == StreamRequest(response)
           sess == [sessions[s] EXCEPT !.response = response]
       IN  IF r.threw
           THEN /\ sessions' = [sessions EXCEPT ![s] = Failed(sess, r.error)]
                /\ chatStore' = Caught(chatStore, sess, r.error)
                /\ toasts' = IF Retry(sess.failureCount, r.error)
                             THEN toasts ELSE toasts + 1
           ELSE /\ sessions' = [sessions EXCEPT ![s] =
                       [sess EXCEPT !.pc = "reading", !.src = response.chunks,
                                    !.fin = response.fin, !.pumping = TRUE,
                                    !.held = TRUE]]
                /\ UNCHANGED <<limiter, lastSubmit, chatStore, toasts>>
    /\ UNCHANGED <<limiter, lastSubmit, appStore, nSessions, nextId, urlConversationId,
                   conversation, serverMsgs, invalidated>>

\* pump(): reader.read() resolves with a chunk
PumpValue(s) ==
    /\ sessions[s].pumping
    /\ sessions[s].src # <<>>
    /\ LET value == Head(sessions[s].src)
           r == PumpChunk(value)
       IN  sessions' = [sessions EXCEPT
               ![s].src = Tail(@),
               ![s].fed = Append(@, value),
               ![s].queue = @ \o r.tokens,
               ![s].emitted = @ \o r.tokens,
               ![s].closeRequested = r.closed,
               ![s].pumping = ~r.closed]
    /\ UNCHANGED <<limiter, lastSubmit, chatStore, appStore, nSessions, nextId, urlConversationId,
                   conversation, serverMsgs, toasts, invalidated>>

\* PumpDone returning without controller.close()
PumpDoneNoClose(s) ==
    /\ sessions[s].pumping
    /\ sessions[s].src = <<>>
    /\ sessions[s].fin = "end"
    /\ sessions' = [sessions EXCEPT ![s].pumping = FALSE,
                                    ![s].held = FALSE]
    /\ UNCHANGED <<limiter, lastSubmit, chatStore, appStore, nSessions, nextId, urlConversationId,
                   conversation, serverMsgs, toasts, invalidated>>

\* pump(): reader.read() resolves with done
PumpDone(s) ==
    /\ sessions[s].pumping
    /\ sessions[s].src = <<>>
    /\ sessions[s].fin = "end"
    /\ sessions' = [sessions EXCEPT ![s].closeRequested = TRUE,
                                    ![s].pumping = FALSE,
                                    ![s].held = FALSE]
    /\ UNCHANGED <<limiter, lastSubmit, chatStore, appStore, nSessions, nextId, urlConversationId,
                   conversation, serverMsgs, toasts, invalidated>>

\* pump(): reader.read() rejects; the promise start() returned rejects and
\* the stream becomes errored, which drops what is queued
PumpFails(s) ==
    /\ sessions[s].pumping
    /\ sessions[s].src = <<>>
    /\ sessions[s].fin = "fail"
    /\ sessions' = [sessions EXCEPT ![s].errored = TRUE,
                                    ![s].queue = <<>>,
                                    ![s].pumping = FALSE,
                                    ![s].held = FALSE]
    /\ UNCHANGED <<limiter, lastSubmit, chatStore, appStore, nSessions, nextId, urlConversationId,
                   conversation, serverMsgs, toasts, invalidated>>

\* the while loop of mutationFn: reader.read() resolves with a token
ConsumeToken(s) ==
    /\ sessions[s].pc = "reading"
    /\ ~sessions[s].errored
    /\ sessions[s].queue # <<>>
    /\ chatStore' = appendToResponse(chatStore, Head(sessions[s].queue))
    /\ sessions' = [sessions EXCEPT ![s].queue = Tail(@),
                                    ![s].observed = Append(@, Head(sessions[s].queue))]
    /\ UNCHANGED <<limiter, lastSubmit, appStore, nSessions, nextId, urlConversationId,
                   conversation, serverMsgs, toasts, invalidated>>

\* the while loop of mutationFn: reader.read() resolves with done; the
\* mutation resolves
ConsumeDone(s) ==
    /\ sessions[s].pc = "reading"
    /\ ~sessions[s].errored
    /\ sessions[s].queue = <<>>
    /\ sessions[s].closeRequested
    /\ chatStore' = setStreaming(chatStore, FALSE)
    /\ invalidated' = invalidated \cup {sessions[s].conversationId}
    /\ sessions' = [sessions EXCEPT ![s].pc = "resolved"]
    /\ UNCHANGED <<limiter, lastSubmit, appStore, nSessions, nextId, urlConversationId,
                   conversation, serverMsgs, toasts>>

\* the while loop of mutationFn: reader.read() rejects
ConsumeError(s) ==
    /\ sessions[s].pc = "reading"
    /\ sessions[s].errored
    /\ sessions' = [sessions EXCEPT ![s] = Failed(@, ReadError)]
    /\ chatStore' = Caught(chatStore, sessions[s], ReadError)
    /\ toasts' = IF Retry(sessions[s].failureCount, ReadError)
                 THEN toasts ELSE toasts + 1
    /\ UNCHANGED <<limiter, lastSubmit, appStore, nSessions, nextId, urlConversationId,
                   conversation, serverMsgs, invalidated>>

\* the retryer runs mutationFn again after its delay
RetryAttempt(s) ==
    /\ sessions[s].pc = "retryWait"
    /\ Runs < MaxRuns
    /\ chatStore' = MutationFnStart(chatStore, sessions[s].message, nextId)
    /\ sessions' = [sessions EXCEPT ![s] =
           Started(@, @.conversationId, @.message, nextId)]
    /\ nextId' = nextId + 2
    /\ UNCHANGED <<limiter, lastSubmit, appStore, nSessions, urlConversationId, conversation,
                   serverMsgs, toasts, invalidated>>

-----------------------------------------------------------------------------

Next ==
    \/ \E value \in Inputs : TypeInput(value)
    \/ HandleSubmit
    \/ \E c \in Conversations : SelectConversation(c)
    \/ \E s \in Sends, response \in Responses : FetchSettles(s, response)
    \/ \E s \in Sends : PumpValue(s)
    \/ \E s \in Sends : PumpDone(s)
    \/ \E s \in Sends : PumpFails(s)
    \/ \E s \in Sends : ConsumeToken(s)
    \/ \E s \in Sends : ConsumeDone(s)
    \/ \E s \in Sends : ConsumeError(s)
    \/ \E s \in Sends : RetryAttempt(s)

Spec == Init /\ [][Next]_vars

-----------------------------------------------------------------------------
(* The frame decoder on its own: one accepted send whose response is a     *)
(* 200 with a body; the body's bytes are cut into chunks in every way.     *)

\* most chunks a body is cut into
MaxChunks == 3

\* Example C of the specification
WireX == Line(<<"X">>)

\* a payload with a two-byte character
WireE9 == Line(<<LeadByte, ContByte>>)

\* two tokens, a line that is not a data line, a padded sentinel with a
\* CR LF line end, and a data line after the sentinel
WireDone ==
    Line(<<"a">>) \o <<":", NL>> \o Line(<<"b">>)
        \o DataPrefix \o <<" ">> \o SentinelChars \o <<"\r", NL>>
        \o Line(<<"z">>)

\* Example D of the specification
WireFoo == Line(<<"f", "o", "o">>)

Wires == { WireX, WireE9, WireDone, WireFoo }

\* Example A of the specification
ExampleA ==
    << DataPrefix \o <<"H", "e", "l">>,
       <<"l", "o", NL>> \o DataPrefix,
       <<" ", "W", "o", "r", "l", "d", NL>> \o DataPrefix \o SentinelChars \o <<NL>> >>

Min(S) == CHOOSE x \in S : \A y \in S : x <= y

RECURSIVE SplitAt(_, _)
\* bytes cut after each position of cuts
SplitAt(bytes, cuts) ==
    IF cuts = {} THEN <<bytes>>
    ELSE LET c == Min(cuts)
         IN  <<SubSeq(bytes, 1, c)>>
                 \o SplitAt(SubSeq(bytes, c + 1, Len(bytes)),
                            {d - c : d \in cuts \ {c}})

RECURSIVE CutSets(_, _)
\* the sets of at most k cut positions in 1 .. n
CutSets(n, k) ==
    IF k = 0 THEN {{}}
    ELSE CutSets(n, k - 1)
             \cup {cuts \cup {i} : cuts \in CutSets(n, k - 1), i \in 1 .. n}

\* every way of cutting bytes into at most MaxChunks chunks
Chunkings(bytes) ==
    {SplitAt(bytes, cuts) : cuts \in CutSets(Len(bytes) - 1, MaxChunks - 1)}

\* one byte per chunk
Bytewise(bytes) == SplitAt(bytes, 1 .. (Len(bytes) - 1))

DecoderInputs ==
    UNION {Chunkings(w) : w \in Wires}
        \cup {Bytewise(WireX), Bytewise(WireE9), ExampleA, <<Flatten(ExampleA)>>}

\* the state after the user selected c1, typed "hi" and submitted, and
\* fetch answered response
Streaming(response) ==
    /\ chatStore = MutationFnStart(chatStoreInit, <<"h", "i">>, 1)
    /\ appStore = [currentConversationId |-> "c1"]
    /\ sessions = [s \in Sends |->
           IF s = 1
           THEN [Started(NoSession, "c1", <<"h", "i">>, 1) EXCEPT
                    !.pc = "reading", !.response = response,
                    !.src = response.chunks, !.fin = response.fin,
                    !.pumping = TRUE, !.held = TRUE]
           ELSE NoSession]
    /\ nSessions = 1
    /\ nextId = 3
    /\ urlConversationId = None
    /\ conversation = NoConversation
    /\ serverMsgs = ServerInit
    /\ toasts = 0
    /\ invalidated = {}
    /\ lastSubmit = "sent"
    /\ limiter = apiRateLimiter

InitDecoder == \E chunks \in DecoderInputs : Streaming(OkBody(chunks, "end"))

NextDecoder ==
    \/ \E s \in Sends : PumpValue(s)
    \/ \E s \in Sends : PumpDone(s)
    \/ \E s \in Sends : ConsumeToken(s)
    \/ \E s \in Sends : ConsumeDone(s)

SpecDecoder == InitDecoder /\ [][NextDecoder]_vars

-----------------------------------------------------------------------------
(* The transport reader on its own: one accepted send and every answer of  *)
(* the network                                                             *)

\* the state after the user selected c1, typed "hi" and submitted
InitTransport ==
    /\ chatStore = MutationFnStart(chatStoreInit, <<"h", "i">>, 1)
    /\ appStore = [currentConversationId |-> "c1"]
    /\ sessions = [s \in Sends |->
           IF s = 1 THEN Started(NoSession, "c1", <<"h", "i">>, 1) ELSE NoSession]
    /\ nSessions = 1
    /\ nextId = 3
    /\ urlConversationId = None
    /\ conversation = NoConversation
    /\ serverMsgs = ServerInit
    /\ toasts = 0
    /\ invalidated = {}
    /\ lastSubmit = "sent"
    /\ limiter = apiRateLimiter

NextTransport ==
    \/ \E s \in Sends, response \in AllResponses : FetchSettles(s, response)
    \/ \E s \in Sends : PumpValue(s)
    \/ \E s \in Sends : PumpDone(s)
    \/ \E s \in Sends : PumpFails(s)
    \/ \E s \in Sends : ConsumeToken(s)
    \/ \E s \in Sends : ConsumeDone(s)
    \/ \E s \in Sends : ConsumeError(s)
    \/ \E s \in Sends : RetryAttempt(s)

SpecTransport == InitTransport /\ [][NextTransport]_vars

\* the loop of mutationFn is a chain of promise continuations: a read that
\* can settle does settle, and so does a body that has ended or failed
FairTransport ==
    /\ SpecTransport
    /\ \A s \in Sends :
          /\ WF_vars(PumpDone(s))
          /\ WF_vars(PumpFails(s))
          /\ WF_vars(ConsumeToken(s))
          /\ WF_vars(ConsumeDone(s))
          /\ WF_vars(ConsumeError(s))

-----------------------------------------------------------------------------
(* The chat page: the route, the conversation query and its two effects    *)
(* next to one accepted send                                               *)

\* the answers the send gets on the page
PageResponses == { ModelNotLoaded, FooThenClose, StallsAfterToken }

\* the state after the user opened /chat/c1, typed "hi" and submitted while
\* the conversation was still being fetched
InitPage ==
    /\ chatStore = MutationFnStart(chatStoreInit, <<"h", "i">>, 1)
    /\ appStore = [currentConversationId |-> "c1"]
    /\ sessions = [s \in Sends |->
           IF s = 1 THEN Started(NoSession, "c1", <<"h", "i">>, 1) ELSE NoSession]
    /\ nSessions = 1
    /\ nextId = 3
    /\ urlConversationId = "c1"
    /\ conversation = NoConversation
    /\ serverMsgs = ServerInit
    /\ toasts = 0
    /\ invalidated = {}
    /\ lastSubmit = "sent"
    /\ limiter = apiRateLimiter

\* the server holds the exchange of s
Stored(s) ==
    /\ sessions[s].conversationId \in Conversations
    /\ \E i \in DOMAIN serverMsgs[sessions[s].conversationId] :
          serverMsgs[sessions[s].conversationId][i].id = 200 + sessions[s].phId

\* the backend has stored the exchange of a send whose stream it ended: the
\* user message and the text it generated, under ids of its own
ServerStores(s) ==
    /\ sessions[s].pc = "resolved"
    /\ ~Stored(s)
    /\ serverMsgs' = [serverMsgs EXCEPT ![sessions[s].conversationId] =
           @ \o << Message(200 + sessions[s].userId, "user",
                           Str(sessions[s].message)),
                   Message(200 + sessions[s].phId, "assistant",
                           Concat(sessions[s].emitted)) >>]
    /\ UNCHANGED <<limiter, chatStore, appStore, sessions, nSessions, nextId,
                   urlConversationId, conversation, toasts, invalidated,
                   lastSubmit>>

NextPage ==
    \/ \E c \in Conversations : SelectConversation(c)
    \/ \E c \in Conversations \cup {None} : Navigate(c)
    \/ QueryUpdate
    \/ \E s \in Sends, response \in PageResponses : FetchSettles(s, response)
    \/ \E s \in Sends : PumpValue(s)
    \/ \E s \in Sends : PumpDone(s)
    \/ \E s \in Sends : ConsumeToken(s)
    \/ \E s \in Sends : ConsumeDone(s)
    \/ \E s \in Sends : RetryAttempt(s)
    \/ \E s \in Sends : ServerStores(s)

SpecPage == InitPage /\ [][NextPage]_vars

\* a fetch that is answered settles, a chunk that arrived is read, and the
\* continuations of the reads run; a server that stops sending is not forced
\* to go on.  The query of the route's conversation delivers changed data
\* if the route stays on the conversation or keeps coming back to it.
FairPage ==
    /\ SpecPage
    /\ SF_vars(QueryUpdate)
    /\ \A s \in Sends :
          /\ WF_vars(ServerStores(s))
          /\ WF_vars(\E response \in PageResponses : FetchSettles(s, response))
          /\ WF_vars(PumpDone(s))
          /\ WF_vars(ConsumeToken(s))
          /\ WF_vars(ConsumeDone(s))
          /\ WF_vars(RetryAttempt(s))
          \* weak fairness of PumpValue(s), with its guard written out
          /\ \/ []<>(~(sessions[s].pumping /\ sessions[s].src # <<>>))
             \/ []<><<PumpValue(s)>>_vars

-----------------------------------------------------------------------------
(* Submitting on its own: conversation c1 is open, the user types and      *)
(* submits                                                                 *)

SubmitResponses == { ModelNotLoaded, FooThenClose }

InitSubmit ==
    /\ chatStore = chatStoreInit
    /\ appStore = [currentConversationId |-> "c1"]
    /\ sessions = [s \in Sends |-> NoSession]
    /\ nSessions = 0
    /\ nextId = 1
    /\ urlConversationId = None
    /\ conversation = NoConversation
    /\ serverMsgs = ServerInit
    /\ toasts = 0
    /\ invalidated = {}
    /\ lastSubmit = "none"
    /\ limiter = apiRateLimiter

NextSubmit ==
    \/ \E value \in Inputs : TypeInput(value)
    \/ HandleSubmit
    \/ \E s \in Sends, response \in SubmitResponses : FetchSettles(s, response)
    \/ \E s \in Sends : PumpValue(s)
    \/ \E s \in Sends : PumpDone(s)
    \/ \E s \in Sends : ConsumeToken(s)
    \/ \E s \in Sends : ConsumeDone(s)
    \/ \E s \in Sends : RetryAttempt(s)

SpecSubmit == InitSubmit /\ [][NextSubmit]_vars

-----------------------------------------------------------------------------
(* The rate limiter on its own: limiters of every small quota and window,  *)
(* called at times that do not decrease                                    *)

InitRateLimiter ==
    /\ chatStore = chatStoreInit
    /\ appStore = appStoreInit
    /\ sessions = [s \in Sends |-> NoSession]
    /\ nSessions = 0
    /\ nextId = 1
    /\ urlConversationId = None
    /\ conversation = NoConversation
    /\ serverMsgs = ServerInit
    /\ toasts = 0
    /\ invalidated = {}
    /\ lastSubmit = "none"
    /\ \E maxRequests \in 0 .. MaxQuota, windowMs \in 0 .. MaxWindow :
          limiter = RateLimiter(maxRequests, windowMs)

\* time passes
Tick ==
    /\ limiter.now < MaxTime
    /\ limiter' = [limiter EXCEPT !.now = @ + 1]
    /\ UNCHANGED <<chatStore, appStore, sessions, nSessions, nextId,
                   urlConversationId, conversation, serverMsgs, toasts,
                   invalidated, lastSubmit>>

\* a call of canMakeRequest()
CallCanMakeRequest ==
    /\ Len(limiter.granted) < MaxGranted
    /\ LET r == CanMakeRequest(limiter)
       IN  limiter' = [limiter EXCEPT
               !.requests = r.requests,
               !.granted = IF r.result THEN Append(@, limiter.now) ELSE @,
               !.result = IF r.result THEN "true" ELSE "false"]
    /\ UNCHANGED <<chatStore, appStore, sessions, nSessions, nextId,
                   urlConversationId, conversation, serverMsgs, toasts,
                   invalidated, lastSubmit>>

NextRateLimiter == Tick \/ CallCanMakeRequest

SpecRateLimiter == InitRateLimiter /\ [][NextRateLimiter]_vars

-----------------------------------------------------------------------------
(* Vocabulary of the properties *)

\* a session of the specification is Sending while fetch is pending and
\* Streaming while the mutation reads the stream
Active(s) == sessions[s].pc \in {"fetching", "reading"}

Completed(s) == sessions[s].pc = "resolved"

\* the last run of mutationFn threw
Errored(s) == sessions[s].pc \in {"retryWait", "rejected"}

\* the positions of the transcript holding the placeholder of s
PlaceholderAt(s) ==
    {i \in DOMAIN chatStore.messages :
        /\ chatStore.messages[i].id = sessions[s].phId
        /\ chatStore.messages[i].role = "assistant"}

\* the placeholder of s is in the transcript with this content
PlaceholderHolds(s, content) ==
    \E i \in PlaceholderAt(s) : chatStore.messages[i].content = content

\* the body ended (reader.read() gave done) and no sentinel closed the stream
EndedWithoutSentinel(s) ==
    /\ sessions[s].response.kind = "response"
    /\ sessions[s].response.hasBody
    /\ sessions[s].fin = "end"
    /\ sessions[s].src = <<>>
    /\ ~sessions[s].pumping
    /\ ~sessions[s].held

\* the sentinel closed the stream
ClosedBySentinel(s) == sessions[s].closeRequested /\ sessions[s].held

\* the user left the conversation of s while s was Sending or Streaming
Abandoned(s) ==
    /\ Active(s)
    /\ appStore.currentConversationId # sessions[s].conversationId

-----------------------------------------------------------------------------
(* C1..C10 *)

\* C1: while a session is Sending or Streaming, its assistant placeholder is
\* in the transcript and its content is the concatenation, in order, of the
\* tokens the session has read so far (the empty string before the first).
C1_ContentIsConcatenation ==
    \A s \in Sends :
        Active(s) => PlaceholderHolds(s, Concat(sessions[s].observed))

\* C2: no two sessions of one conversation are Sending or Streaming at the
\* same time.
C2_OneActiveSessionPerConversation ==
    \A s, t \in Sends :
        (s # t /\ Active(s) /\ Active(t))
            => sessions[s].conversationId # sessions[t].conversationId

\* C3: when the decoder has closed the stream, the tokens it emitted from
\* the chunks it was fed are the tokens it emits when the same bytes arrive
\* in one chunk.
C3_RechunkingInvariant ==
    \A s \in Sends :
        sessions[s].closeRequested
            => sessions[s].emitted
                   = PumpChunk(Flatten(sessions[s].fed \o sessions[s].src)).tokens

\* C4: the exchange of an accepted send (user message, placeholder, request)
\* runs once: mutationFn is not run again after it failed.
C4_ExchangeRunsOnce == \A s \in Sends : sessions[s].attempts <= 1

\* C5: when a run of a send has ended with an error, its placeholder is in
\* the transcript and holds the concatenation of the tokens read before the
\* failure.
C5_PlaceholderKeptOnError ==
    \A s \in Sends :
        Errored(s) => PlaceholderHolds(s, Concat(sessions[s].observed))

\* C6: no token the decoder enqueues is the sentinel "[DONE]".
C6_SentinelNeverEmitted ==
    \A s \in Sends :
        \A i \in DOMAIN sessions[s].emitted : sessions[s].emitted[i] # Sentinel

\* C6 witness: a padded sentinel closed the stream after two tokens.
C6_SentinelSeen ==
    \E s \in Sends :
        /\ ClosedBySentinel(s)
        /\ sessions[s].emitted = <<"a", "b">>
        /\ Flatten(sessions[s].fed \o sessions[s].src) = WireDone

\* C7: fed the three chunks of Example A, the send ends Completed, the
\* decoder has emitted "Hello" and " World" and the placeholder holds
\* "Hello World".
C7_ExampleA ==
    \A s \in Sends :
        (sessions[s].fed \o sessions[s].src = ExampleA
            /\ (Completed(s) \/ Errored(s)))
        => /\ Completed(s)
           /\ sessions[s].emitted = <<"Hello", " World">>
           /\ PlaceholderHolds(s, "Hello World")

C9_SourceEndCompletes ==
    \A s \in Sends :
        /\ [](EndedWithoutSentinel(s) => ~Errored(s) /\ ~sessions[s].errored)
        /\ (EndedWithoutSentinel(s) ~> Completed(s))

\* C9 witness: Example D, token "foo", then the connection closed.
C9_ExampleD ==
    \E s \in Sends :
        /\ EndedWithoutSentinel(s)
        /\ sessions[s].emitted = <<"foo">>
        /\ Completed(s)
        /\ PlaceholderHolds(s, "foo")

\* C10: a send whose run has ended, Completed or with an error, does not
\* hold the reader of a body that is still open.
C10_ReaderReleased ==
    \A s \in Sends : (Completed(s) \/ Errored(s)) => ~sessions[s].held

\* conversation c has a send that is Sending or Streaming
HasActive(c) ==
    \E s \in Sends : Active(s) /\ sessions[s].conversationId = c

\* the preconditions of a send fail: blank input, no target conversation, or
\* a send of the target conversation is Sending or Streaming
PreconditionFails ==
    \/ Trim(chatStore.inputValue) = <<>>
    \/ appStore.currentConversationId = None
    \/ HasActive(appStore.currentConversationId)

\* this step is a call of handleSubmit that returned at its guard
SubmitReturns == lastSubmit' = "returned" /\ lastSubmit # "returned"

\* the user message of s directly followed by its placeholder is in st
ExchangeAppended(s, st) ==
    \E i \in 1 .. (Len(st.messages) - 1) :
        /\ st.messages[i] = Message(sessions[s].userId, "user",
                                    Str(sessions[s].message))
        /\ st.messages[i + 1].id = sessions[s].phId
        /\ st.messages[i + 1].role = "assistant"

\* this step accepts send s
Accepts(s) == nSessions = s - 1 /\ nSessions' = s

\* in this step s becomes Sending: it is accepted, or mutationFn runs again
EntersSending(s) ==
    sessions'[s].pc = "fetching" /\ sessions[s].pc # "fetching"

\* in this step streamRequest returns the stream to s
EntersStreaming(s) ==
    sessions'[s].pc = "reading" /\ sessions[s].pc = "fetching"

-----------------------------------------------------------------------------
(* C11..C20 *)

\* C11: when the user has left the conversation of a send that is Sending or
\* Streaming, the streaming indicator eventually becomes false.
C11_AbandonClearsIndicator ==
    \A s \in Sends : Abandoned(s) ~> ~chatStore.isStreaming

\* C12: while a send of another conversation is Sending or Streaming, a send
\* with non-blank input to a conversation that has no such send passes the
\* guard of handleSubmit.
C12_OtherConversationAccepted ==
    (/\ ~PreconditionFails
     /\ \E s \in Sends : Active(s))
        => ~SubmitRejected

\* C13: a send whose preconditions fail is one handleSubmit returns on at its
\* guard, before it changes the store or issues a request.
C13_RejectedSendIsNoOp == PreconditionFails => SubmitRejected

\* C14: a call of handleSubmit that returns at its guard reports the
\* rejection: a toast is shown or the error of the store is set.
C14_RejectionReported ==
    [][SubmitReturns
         => (toasts' > toasts \/ chatStore'.error # chatStore.error)]_vars

\* C15: when a send becomes Completed, the streaming indicator is false, the
\* error of the store is unset and the queries of its conversation have been
\* invalidated.
C15_CompletedState ==
    [][\A s \in Sends :
          (Completed(s)' /\ ~Completed(s))
            => /\ sessions[s].pc = "reading"
               /\ ~chatStore'.isStreaming
               /\ chatStore'.error = None
               /\ sessions[s].conversationId \in invalidated']_vars

\* the content of the placeholder of s, None when it is not in the transcript
PlaceholderContent(s, st) ==
    IF \E i \in DOMAIN st.messages : st.messages[i].id = sessions[s].phId
    THEN LET i == CHOOSE i \in DOMAIN st.messages :
                      st.messages[i].id = sessions[s].phId
         IN  st.messages[i].content
    ELSE None

\* C16: when a send that is Sending or Streaming fails, in that one step the
\* streaming indicator is cleared, the error is recorded in the store and
\* the error reaches the caller (the mutation rejects and handleSubmit shows
\* its toast); the send is then final and cannot become Completed.
C16_FailureGoesToErrored ==
    [][\A s \in Sends :
          (Active(s) /\ Errored(s)')
            => /\ ~chatStore'.isStreaming
               /\ chatStore'.error = sessions'[s].error.message
               /\ sessions'[s].pc = "rejected"
               /\ toasts' = toasts + 1]_vars

\* C17: a send that is Completed or Errored stays as it is, and the content
\* of its placeholder does not change any more.
C17_TerminalOnce ==
    [][\A s \in Sends :
          (Completed(s) \/ Errored(s))
            => /\ sessions'[s].pc = sessions[s].pc
               /\ sessions'[s].attempts = sessions[s].attempts
               /\ PlaceholderContent(s, chatStore')
                      = PlaceholderContent(s, chatStore)]_vars

\* C18: the step that accepts a send appends the user message with the
\* submitted (trimmed) text and then the empty placeholder, and leaves the
\* send Sending with no answer and no token yet; when the request is
\* answered and when a token is consumed, the two messages are already in
\* the transcript, the user message first.
C18_MessagesBeforeRequest ==
    [][\A s \in Sends :
          /\ Accepts(s)
               => /\ chatStore'.messages
                       = chatStore.messages
                           \o << Message(nextId, "user",
                                         Str(Trim(chatStore.inputValue))),
                                 Message(nextId + 1, "assistant", "") >>
                  /\ sessions'[s].pc = "fetching"
                  /\ sessions'[s].response = NoResponse
                  /\ sessions'[s].observed = <<>>
          /\ (\/ sessions'[s].response # sessions[s].response
                   /\ sessions[s].pc = "fetching"
              \/ Len(sessions'[s].observed) > Len(sessions[s].observed))
               => ExchangeAppended(s, chatStore)]_vars

\* C18 witness: the first send was accepted and is Sending, the transcript
\* holds "hi" and the empty placeholder.
C18_Accepted ==
    /\ sessions[1].pc = "fetching"
    /\ sessions[1].attempts = 1
    /\ sessions[1].response = NoResponse
    /\ chatStore.messages
         = << Message(1, "user", "hi"), Message(2, "assistant", "") >>

\* C19: while a send is Sending or Streaming, a step that is not a step of
\* a send changes neither the message list (the placeholder included) nor
\* the streaming indicator.
C19_OnlyControllerWrites ==
    [][(sessions' = sessions /\ \E s \in Sends : Active(s))
         => /\ chatStore'.messages = chatStore.messages
            /\ chatStore'.isStreaming = chatStore.isStreaming]_vars

\* C20 as stated: becoming Sending leaves the streaming indicator as it was,
\* and it is the step into Streaming that sets it.
C20_IndicatorSetOnStream ==
    [][\A s \in Sends :
          /\ EntersSending(s)
               => chatStore'.isStreaming = chatStore.isStreaming
          /\ EntersStreaming(s) => chatStore'.isStreaming]_vars

\* C20 amended: the streaming indicator is set to true in the step in which
\* the send becomes Sending, before the request is answered, and the step
\* into Streaming leaves it as it is.
C20_IndicatorSetOnSend ==
    [][\A s \in Sends :
          /\ EntersSending(s) => chatStore'.isStreaming
          /\ EntersStreaming(s)
               => chatStore'.isStreaming = chatStore.isStreaming]_vars

\* C20 witness: a send is Streaming after its first token with the
\* indicator true.
C20_StreamingWithIndicator ==
    \E s \in Sends :
        /\ sessions[s].pc = "reading"
        /\ sessions[s].observed = <<"foo">>
        /\ chatStore.isStreaming

-----------------------------------------------------------------------------
(* C21..C30 *)

\* the payload of a line that starts with "data: "
Payload(line) == Str(Trim(Slice(line, PrefixLen)))

\* the line is a data line whose payload is the sentinel
IsSentinelLine(line) ==
    StartsWith(line, DataPrefix) /\ Payload(line) = Sentinel

\* the line yields a token
IsTokenLine(line) ==
    /\ StartsWith(line, DataPrefix)
    /\ Payload(line) # ""
    /\ Payload(line) # Sentinel

RECURSIVE BeforeSentinel(_)
\* the lines in front of the first sentinel line
BeforeSentinel(lines) ==
    IF lines = <<>> \/ IsSentinelLine(lines[1]) THEN <<>>
    ELSE <<lines[1]>> \o BeforeSentinel(Tail(lines))

RECURSIVE TokensOf(_)
\* the payloads of the token lines, in the order of the lines
TokensOf(lines) ==
    IF lines = <<>> THEN <<>>
    ELSE (IF IsTokenLine(lines[1]) THEN <<Payload(lines[1])>> ELSE <<>>)
             \o TokensOf(Tail(lines))

\* in this step pump() sees the sentinel
SeesSentinel(s) ==
    /\ ~sessions[s].closeRequested
    /\ sessions'[s].closeRequested
    /\ sessions'[s].held

CompleteLines(cs) ==
    LET pieces == SplitLines(cs) IN SubSeq(pieces, 1, Len(pieces) - 1)

\* C22: when the decoder has closed the stream, the tokens it emitted are
\* the payloads of the complete lines of the bytes of the body that start
\* with "data: " and whose stripped payload is neither empty nor the
\* sentinel, in the order of the lines up to the first sentinel line.
C22_TokenPerDataLine ==
    \A s \in Sends :
        sessions[s].closeRequested
            => sessions[s].emitted
                 = TokensOf(BeforeSentinel(CompleteLines(
                       Decode(Flatten(sessions[s].fed \o sessions[s].src)))))

\* C23: when fetch answered with a success status and no body, streamRequest
\* threw before anything was read or decoded, and the error it threw is of
\* another kind than the error thrown for a failure status (an ApiError).
C23_NoBodyIsProtocolError ==
    \A s \in Sends :
        sessions[s].response = OkNoBody
            => /\ Errored(s)
               /\ sessions[s].fed = <<>>
               /\ sessions[s].emitted = <<>>
               /\ sessions[s].error.name
                    # StreamRequest(ModelNotLoaded).error.name

\* the transcript is the server's list of messages of the conversation of s,
\* the exchange of s included
Refreshed(s) ==
    /\ Stored(s)
    /\ chatStore.messages = serverMsgs[sessions[s].conversationId]

\* C24: after a send completed, and unless the user goes to another
\* conversation, the transcript eventually is the server's list of messages
\* of the conversation, with the exchange as the server stored it.
C24_RefreshSupersedes ==
    \A s \in Sends :
        Completed(s)
            ~> (\/ Refreshed(s)
                \/ appStore.currentConversationId # sessions[s].conversationId)

\* an accepted send that has not delivered its outcome to the caller: it is
\* Sending, Streaming or waiting for its next attempt
InFlight(s) == sessions[s].pc \in {"fetching", "reading", "retryWait"}

\* C25: the streaming indicator is true exactly when some accepted send has
\* not yet resolved or rejected.
C25_IndicatorWhileInFlight ==
    chatStore.isStreaming <=> \E s \in Sends : InFlight(s)

\* C26: a step in which a send consumes a token leaves every message other
\* than the placeholder of that send as it was.
C26_TokenOnlyInOwnPlaceholder ==
    [][\A s \in Sends :
          Len(sessions'[s].observed) > Len(sessions[s].observed)
            => \A i \in DOMAIN chatStore.messages :
                  chatStore.messages[i].id # sessions[s].phId
                    => /\ i \in DOMAIN chatStore'.messages
                       /\ chatStore'.messages[i] = chatStore.messages[i]]_vars

\* C27: whenever the streaming indicator is false, currentResponse is the
\* empty string.
C27_BufferEmptyWhenIdle ==
    ~chatStore.isStreaming => chatStore.currentResponse = ""

\* C28: setCurrentConversation(id) makes id the current conversation; with
\* an id other than the current one it clears the chat state, with the
\* current id it leaves the chat state as it is.
C28_SwitchClearsChat ==
    \A c \in Conversations \cup {None} :
        LET r == setCurrentConversation(appStore, chatStore, c)
        IN  /\ r.app.currentConversationId = c
            /\ r.chat = IF c # appStore.currentConversationId
                        THEN clearMessages(chatStore)
                        ELSE chatStore

\* C29: the limiter never holds more than maxRequests timestamps, and of the
\* calls of canMakeRequest that returned true, those made less than
\* windowMs after any one of them, that one included, are at most
\* maxRequests.
C29_AtMostMaxRequestsPerWindow ==
    /\ Len(limiter.requests) <= limiter.maxRequests
    /\ \A i \in DOMAIN limiter.granted :
          Cardinality({j \in DOMAIN limiter.granted :
                          /\ j >= i
                          /\ limiter.granted[j] - limiter.granted[i]
                                < limiter.windowMs})
            <= limiter.maxRequests

\* C29 witness: a limiter of quota 2 refused a call with its two timestamps
\* in the window, after it had granted a third call in an earlier window.
C29_QuotaReached ==
    /\ limiter.maxRequests = 2
    /\ limiter.result = "false"
    /\ Len(limiter.requests) = 2
    /\ Len(limiter.granted) = 3

\* C30: getTimeUntilNextRequest() is 0 exactly when canMakeRequest() called
\* at the same time returns true, and a call of canMakeRequest() that
\* returns false adds no timestamp: it leaves the timestamps still in the
\* window and grants nothing.
C30_ZeroWaitIffGranted ==
    /\ [](GetTimeUntilNextRequest(limiter) = 0 <=> CanMakeRequest(limiter).result)
    /\ [][(limiter'.result = "false" /\ limiter'.now = limiter.now)
            => /\ limiter'.requests = Recent(limiter)
               /\ limiter'.granted = limiter.granted]_vars

\* C30 witness: a call was refused and the wait is positive; the window of
\* the one timestamp held has not passed.
C30_RefusedAndWaiting ==
    /\ limiter.maxRequests = 1
    /\ limiter.result = "false"
    /\ limiter.requests = <<limiter.now - 1>>
    /\ GetTimeUntilNextRequest(limiter) > 0
    /\ ~CanMakeRequest(limiter).result

====
